---- MODULE Spec2Model ----
(***************************************************************************)
(* Model of the reddit-etl-pipeline batch job: the OAuth token exchange    *)
(* (auth.py), the rate-limited API client and the CLI command (reddit.py)  *)
(* and the staging-then-merge warehouse load (database.py).                *)
(*                                                                         *)
(*   Spec        one run of the command main                               *)
(*   SpecAuth    RedditAuth driven through its public methods              *)
(*   SpecClient  the four fetches of get_result under a running clock      *)
(*   SpecLoader  save_table run twice on one result set, from any          *)
(*               destination contents                                      *)
(***************************************************************************)
EXTENDS Bags, FiniteSets, Integers, Sequences, TLC

VARIABLES
    pc,          \* position of the running command / of the caller
    exc,         \* exception in flight or that ended the run ("none" if none)
    logged,      \* logging.exception(exc) was called by main
    exitCode,    \* -1 while running, 0 normal termination, 1 exception left main
    secret,      \* Credential Record stored in the secret manager
    config,      \* RedditAuth.config / the dict make_request mutates
    headers,     \* RedditApi.headers["Authorization"]
    saves,       \* number of save_token calls made
    xchg,        \* the last token exchange: payload, response, record before it
    clock,       \* monotonic clock, in ticks
    last_reset,  \* RateLimitDecorator.last_reset
    num_calls,   \* RateLimitDecorator.num_calls
    remaining,   \* period_remaining carried by the RateLimitException in flight
    admitted,    \* clock values at which a data request was issued
    fetched,     \* number of collections fetched so far
    waited,      \* ticks that passed since the last step of the command
    table,       \* the dataframe handed to save_table
    staging,     \* the staging table redditads_tmp
    destination, \* the destination table redditads
    dest0,       \* destination as it was when the run started
    steps,       \* Warehouse Loader steps executed by the current save
    saveNo,      \* number of save_table calls started on the same dataframe
    outcomes     \* how each save_table call ended, in order

vars == <<pc, exc, logged, exitCode, secret, config, headers, saves, xchg,
          clock, last_reset, num_calls, remaining, admitted, fetched, waited,
          table, staging, destination, dest0, steps, saveNo, outcomes>>

authVars == <<secret, config, saves, xchg>>
limiterVars ==
    <<clock, last_reset, num_calls, remaining, admitted, fetched, waited>>
loaderVars == <<table, staging, destination, dest0, steps, saveNo, outcomes>>

----------------------------------------------------------------------------
(* Python values *)

\* Python's None
None == "<None>"
\* marks a key that a dict does not hold
Absent == "<absent>"

\* d.get(k): the value, or None when the key is missing
Get(d, k) == IF d[k] = Absent THEN None ELSE d[k]

\* a or b: b when a is falsy (None or the empty string)
PyOr(a, b) == IF a \in {None, ""} THEN b ELSE a

\* str(x) as an f-string renders it
Str(x) == IF x = None THEN "None" ELSE x

----------------------------------------------------------------------------
(* auth.py: the token exchange *)

\* status codes the token endpoint and the data endpoints answer with
StatusCodes == {200, 401, 500}

\* requests.Response.raise_for_status: HTTPError for 4xx and 5xx
RaisesForStatus(status) == 400 <= status /\ status < 600

\* refresh_token / access_token values the platform may return
NewRefresh == "r1"
NewAccess == "a1"

\* JSON bodies of the token endpoint
TokenBodies ==
    [error : {Absent, "invalid_grant"},
     refresh_token : {Absent, None, NewRefresh},
     access_token : {Absent, NewAccess}]

Responses == [status : StatusCodes, body : TokenBodies]

\* the two grant payloads (get_token's and refresh_token's data dicts)
AuthCodeGrant ==
    [grant_type |-> "authorization_code", refresh_token |-> Absent,
     access_token |-> Absent]
RefreshGrant(rt) ==
    [grant_type |-> "refresh_token", refresh_token |-> rt,
     access_token |-> Absent]

NoConfig == [refresh_token |-> Absent, access_token |-> Absent]

\* the Credential Record read at process start
StoredRecord == [refresh_token |-> "r0", access_token |-> "a0"]

NoExchange ==
    [happened |-> FALSE, data |-> AuthCodeGrant,
     res |-> [status |-> 200,
              body |-> [error |-> Absent, refresh_token |-> Absent,
                        access_token |-> Absent]],
     before |-> NoConfig, stored |-> NoConfig, savesBefore |-> 0,
     raised |-> "none"]

\* make_request with the save placed before the error check
SaveFirstMakeRequest(cfg, data, res) ==
    LET token == res.body
        new == [cfg EXCEPT
                  !.refresh_token = PyOr(Get(token, "refresh_token"),
                                         Get(data, "refresh_token")),
                  !.access_token = PyOr(Get(token, "access_token"),
                                        Get(data, "access_token"))]
    IN  IF RaisesForStatus(res.status) \/ token.error # Absent
        THEN [raised |-> "HTTPError", config |-> new, saved |-> TRUE]
        ELSE [raised |-> "none", config |-> new, saved |-> TRUE]

\* RedditAuth.make_request(config, data) against response res:
\* the exception raised, the config dict afterwards, whether save_token ran
make_request(cfg, data, res) ==
    LET token == res.body
    IN  IF RaisesForStatus(res.status)
        THEN [raised |-> "HTTPError", config |-> cfg, saved |-> FALSE]
        ELSE IF token.error # Absent
        THEN [raised |-> "HTTPError", config |-> cfg, saved |-> FALSE]
        ELSE [raised |-> "none",
              config |-> [cfg EXCEPT
                  !.refresh_token = PyOr(Get(token, "refresh_token"),
                                         Get(data, "refresh_token")),
                  !.access_token = PyOr(Get(token, "access_token"),
                                        Get(data, "access_token"))],
              saved |-> TRUE]

\* effect of one make_request call on the Token Manager's state
Exchange(cfg, data, res) ==
    LET r == make_request(cfg, data, res)
    IN  /\ config' = r.config
        /\ secret' = IF r.saved THEN r.config ELSE secret
        /\ saves' = IF r.saved THEN saves + 1 ELSE saves
        /\ xchg' = [happened |-> TRUE, data |-> data, res |-> res,
                    before |-> cfg, stored |-> secret, savesBefore |-> saves,
                    raised |-> r.raised]
        /\ exc' = r.raised

----------------------------------------------------------------------------
(* database.py: tables, the staging load and the merge statement *)

\* SQL NULL
NULL == "<NULL>"

\* the Merge Key: keys in merge_tables
KeyCols == {"date", "ad_id", "ad_group_id", "account_id", "campaign_id"}

\* REDDITADS_SCHEMA.keys(); the 30 non-key columns are represented by two
SchemaCols == KeyCols \cup {"spend", "ad_name"}

\* update_cols_list = insert_cols_list - keys
UpdateCols == SchemaCols \ KeyCols

\* values a row may carry in each column (all key columns are NULLABLE)
AllRows ==
    [date : {"2021-03-01"},
     ad_id : {"t3_ad"},
     ad_group_id : {"t2_group"},
     account_id : {"t2_a", "t2_b", NULL},
     campaign_id : {"t2_campaign"},
     spend : {10, 20},
     ad_name : {"ad"}]

\* largest number of rows in one result set
MaxRows == 2
\* largest number of rows the destination holds before the first save
MaxDestRows == 2

\* a table body is a multiset of rows: each row it holds -> its copies
Count(rows, r) == IF r \in DOMAIN rows THEN rows[r] ELSE 0

RECURSIVE SumOver(_, _)
SumOver(S, rows) ==
    IF S = {} THEN 0
    ELSE LET x == CHOOSE y \in S : TRUE
         IN  Count(rows, x) + SumOver(S \ {x}, rows)

\* number of rows of a table body
Size(rows) == SumOver(DOMAIN rows, rows)

\* the multiset with f[r] copies of each row r
Rows(f) == [r \in {x \in DOMAIN f : f[x] > 0} |-> f[r]]

EmptyRows == Rows([r \in AllRows |-> 0])

RowSets(n) == {Rows(f) : f \in {g \in [AllRows -> 0..n] : Size(g) <= n}}

NoTable == [exists |-> FALSE, rows |-> EmptyRows]
Table(rows) == [exists |-> TRUE, rows |-> rows]

\* the sql comparison old.c = tmp.c: never true on NULL
SqlEq(a, b) == a # NULL /\ b # NULL /\ a = b

\* join_cols: old.c = tmp.c for every c in keys
Matches(old, tmp) == \A c \in KeyCols : SqlEq(old[c], tmp[c])

\* staging rows (with copies) the destination row old joins with
SourceMatches(src, old) ==
    SumOver({s \in AllRows : Matches(old, s)}, src)

\* the merge statement is rejected when a destination row joins with more
\* than one staging row
Conflict(dst, src) ==
    \E o \in DOMAIN dst : SourceMatches(src, o) > 1

\* an update clause that leaves matched rows as they are
KeepOld(old, src) == old

\* when matched then update set c = tmp.c for every non-key column
Updated(old, src) ==
    IF \E s \in DOMAIN src : Matches(old, s)
    THEN LET s == CHOOSE t \in DOMAIN src : Matches(old, t)
         IN  [c \in SchemaCols |-> IF c \in UpdateCols THEN s[c] ELSE old[c]]
    ELSE old

\* when not matched then insert: copies of the staging row to insert
Inserted(dst, src, s) ==
    IF \E o \in DOMAIN dst : Matches(o, s) THEN 0 ELSE Count(src, s)

\* the destination's rows after the merge statement ran to completion
Merged(dst, src) ==
    Rows([x \in AllRows |->
            SumOver({o \in DOMAIN dst : Updated(o, src) = x}, dst)
            + Inserted(dst, src, x)])

----------------------------------------------------------------------------
(* database.py: save_table, step by step *)

\* a dataframe: whether it holds every schema column, and its rows
Frames == [complete : BOOLEAN, rows : RowSets(MaxRows)]

\* save_table without the try/finally: the delete follows a merge that returned
DeleteOnSuccessOnly(afterMerge) ==
    IF afterMerge = "none" THEN "cleanup" ELSE "save_raised"

\* save_table's try/finally: delete_table runs however merge_tables ended
AfterMerge(afterMerge) == "cleanup"

\* a load job pointed at the destination table instead of tmp_table_id
LoadIntoDestination(rows) ==
    /\ destination' = Table(rows)
    /\ UNCHANGED staging

\* load_table_from_dataframe(table, tmp_table_id) with WRITE_TRUNCATE
LoadIntoStaging(rows) ==
    /\ staging' = Table(rows)
    /\ UNCHANGED destination

\* merge_tables issuing its query without the ensure_table call
SkipEnsure == "merge"

\* save_table calls merge_tables next, which starts with ensure_table
AfterStage == "ensure_table"

\* a cleanup that empties the staging table and leaves it in place
Truncated == Table(EmptyRows)

\* client.delete_table(tmp_table_id)
Deleted == NoTable

\* save_new_table: select the schema's columns, run the load job
SaveNewTable ==
    /\ pc = "save"
    /\ steps' = Append(steps, "STAGE")
    /\ UNCHANGED <<logged, exitCode, headers, authVars, limiterVars,
                   table, dest0, saveNo>>
    /\ IF ~table.complete
       THEN \* table[keys] raises KeyError before any load job is made
            /\ exc' = "KeyError"
            /\ pc' = "save_raised"
            /\ outcomes' = Append(outcomes, "stage_raised")
            /\ UNCHANGED <<staging, destination>>
       ELSE \E ok \in BOOLEAN :
            IF ok
            THEN /\ LoadIntoStaging(table.rows)
                 /\ pc' = AfterStage
                 /\ UNCHANGED <<exc, outcomes>>
            ELSE \* BadRequest from job.result(): the load job wrote nothing
                 /\ exc' = "ValueError"
                 /\ pc' = "save_raised"
                 /\ outcomes' = Append(outcomes, "stage_raised")
                 /\ UNCHANGED <<staging, destination>>

\* merge_tables, first statement: ensure_table(create_table, exists_ok=True)
EnsureTable ==
    /\ pc = "ensure_table"
    /\ steps' = Append(steps, "CREATE_DESTINATION_IF_ABSENT")
    /\ destination' = IF destination.exists THEN destination
                      ELSE Table(EmptyRows)
    /\ pc' = "merge"
    /\ UNCHANGED <<exc, logged, exitCode, headers, authVars, limiterVars,
                   table, staging, dest0, saveNo, outcomes>>

\* merge_tables, the query job: the statement applies whole or not at all
MergeTables ==
    /\ pc = "merge"
    /\ steps' = Append(steps, "MERGE")
    /\ UNCHANGED <<logged, exitCode, headers, authVars, limiterVars,
                   table, staging, dest0, saveNo, outcomes>>
    /\ \E accepted \in BOOLEAN :
        IF accepted /\ ~Conflict(destination.rows, staging.rows)
        THEN /\ destination' = Table(Merged(destination.rows, staging.rows))
             /\ exc' = "none"
             /\ pc' = AfterMerge("none")
        ELSE \* BadRequest from job.result() becomes ValueError(job.errors)
             /\ destination' = destination
             /\ exc' = "ValueError"
             /\ pc' = AfterMerge("ValueError")

\* save_table's finally clause: delete_table(tmp_table_id), then leave
DeleteTable ==
    /\ pc = "cleanup"
    /\ steps' = Append(steps, "CLEANUP")
    /\ staging' = Deleted
    /\ pc' = IF exc = "none" THEN "save_returned" ELSE "save_raised"
    /\ outcomes' = Append(outcomes,
                     IF exc = "none" THEN "returned" ELSE "merge_raised")
    /\ UNCHANGED <<exc, logged, exitCode, headers, authVars, limiterVars,
                   table, destination, dest0, saveNo>>

----------------------------------------------------------------------------
(* reddit.py: the rate limiter around RedditApi.make_request *)

\* @limits(calls=1, period=1)
calls == 1
period == 1
\* clock ticks in one second
TicksPerSecond == 2
\* most ticks between the limiter's creation and the first data request
MaxStartup == 2
\* most ticks one HTTP call takes
MaxLatency == 2
\* most ticks between two steps of the call loop (time.sleep overshooting)
MaxOversleep == 1
\* get_result fetches reports, ads, ad_groups and campaigns
Collections == 4

PeriodTicks == period * TicksPerSecond

\* RateLimitDecorator.__period_remaining
period_remaining == PeriodTicks - (clock - last_reset)

\* a limiter that never counts a call against the window
NeverOver(n) == FALSE

\* num_calls > clamped_calls: the call is refused with RateLimitException
OverLimit(n) == n > calls

\* the limits wrapper, entered by sleep_and_retry's loop
Attempt ==
    /\ pc = "attempt"
    /\ LET pr == period_remaining
           reset == pr <= 0
           n == (IF reset THEN 0 ELSE num_calls) + 1
       IN  /\ last_reset' = IF reset THEN clock ELSE last_reset
           /\ num_calls' = n
           /\ IF OverLimit(n)
              THEN /\ remaining' = pr
                   /\ pc' = "sleep"
                   /\ UNCHANGED admitted
              ELSE /\ pc' = "request"
                   /\ admitted' = Append(admitted, clock)
                   /\ UNCHANGED remaining
    /\ waited' = 0
    /\ UNCHANGED <<exc, logged, exitCode, headers, authVars, clock, fetched,
                   loaderVars>>

\* sleep_and_retry: time.sleep(exception.period_remaining), then retry
Sleep ==
    /\ pc = "sleep"
    /\ clock' = clock + remaining
    /\ pc' = "attempt"
    /\ waited' = 0
    /\ UNCHANGED <<exc, logged, exitCode, headers, authVars, last_reset,
                   num_calls, remaining, admitted, fetched, loaderVars>>

\* the body of RedditApi.make_request: the GET, raise_for_status, payload["data"]
Request ==
    /\ pc = "request"
    /\ \E status \in StatusCodes, hasData \in BOOLEAN :
        /\ waited' = 0
        /\ IF RaisesForStatus(status)
           THEN /\ exc' = "HTTPError"
                /\ pc' = "except"
                /\ UNCHANGED fetched
           ELSE IF ~hasData
           THEN /\ exc' = "KeyError"
                /\ pc' = "except"
                /\ UNCHANGED fetched
           ELSE /\ fetched' = fetched + 1
                /\ pc' = IF fetched + 1 = Collections THEN "transform"
                         ELSE "attempt"
                /\ UNCHANGED exc
    /\ UNCHANGED <<logged, exitCode, headers, authVars, clock, last_reset,
                   num_calls, remaining, admitted, loaderVars>>

\* ticks that may pass at a position: before the first call, during an HTTP
\* call, between two steps of the call loop
Slack(at) ==
    IF at = "ready" THEN MaxStartup
    ELSE IF at = "request" THEN MaxLatency
    ELSE IF at = "attempt" THEN MaxOversleep
    ELSE 0

\* the monotonic clock advances while the command is at one position
Tick ==
    /\ waited < Slack(pc)
    /\ clock' = clock + 1
    /\ waited' = waited + 1
    /\ UNCHANGED <<pc, exc, logged, exitCode, headers, authVars, last_reset,
                   num_calls, remaining, admitted, fetched, loaderVars>>

----------------------------------------------------------------------------
(* reddit.py: main *)

\* tables the destination may be when the command starts
InitialDestinations ==
    {NoTable} \cup {Table(b) : b \in RowSets(1)}

\* an except clause that matches no exception
HandlesNothing(e) == FALSE

\* except HTTPError as exc
Handles(e) == e = "HTTPError"

\* db = BigQueryDatabase(project_id=project_id)
CreateDatabase ==
    /\ pc = "main"
    /\ pc' = "api_init"
    /\ UNCHANGED <<exc, logged, exitCode, headers, authVars, limiterVars,
                   loaderVars>>

\* api = RedditApi(): RedditAuth() refreshes the token, then the header is built
ApiInit ==
    /\ pc = "api_init"
    /\ \E res \in Responses :
        LET cfg == secret
            data == RefreshGrant(cfg.refresh_token)
            r == make_request(cfg, data, res)
        IN  /\ Exchange(cfg, data, res)
            /\ IF r.raised # "none"
               THEN \* raised outside main's try block
                    /\ pc' = "exit"
                    /\ exitCode' = 1
                    /\ UNCHANGED headers
               ELSE /\ pc' = "ready"
                    /\ headers' = <<"bearer", Str(r.config.access_token)>>
                    /\ UNCHANGED exitCode
    /\ UNCHANGED <<logged, limiterVars, loaderVars>>

\* main enters its try block and get_result makes the first fetch
GetResult ==
    /\ pc = "ready"
    /\ pc' = "attempt"
    /\ waited' = 0
    /\ UNCHANGED <<exc, logged, exitCode, headers, authVars, clock, last_reset,
                   num_calls, remaining, admitted, fetched, loaderVars>>

\* get_result, after the four fetches: the transforms and the joins
Transform ==
    /\ pc = "transform"
    /\ \E ok \in BOOLEAN, f \in Frames :
        IF ok
        THEN /\ table' = f
             /\ saveNo' = 1
             /\ pc' = "save"
             /\ UNCHANGED exc
        ELSE \* a collection lacks a column the transforms select
             /\ exc' = "KeyError"
             /\ pc' = "except"
             /\ UNCHANGED <<table, saveNo>>
    /\ UNCHANGED <<logged, exitCode, headers, authVars, limiterVars,
                   staging, destination, dest0, steps, outcomes>>

\* main's try block ended without an exception
SaveReturned ==
    /\ pc = "save_returned"
    /\ pc' = "exit"
    /\ exitCode' = 0
    /\ UNCHANGED <<exc, logged, headers, authVars, limiterVars, loaderVars>>

\* an exception reached main's except clause
Except ==
    /\ pc \in {"except", "save_raised"}
    /\ pc' = "exit"
    /\ IF Handles(exc)
       THEN /\ logged' = TRUE
            /\ exitCode' = 0
       ELSE /\ exitCode' = 1
            /\ UNCHANGED logged
    /\ UNCHANGED <<exc, headers, authVars, limiterVars, loaderVars>>

\* nothing raised, nothing logged, the command still running
Running ==
    /\ exc = "none"
    /\ logged = FALSE
    /\ exitCode = -1

\* before RedditAuth() is constructed
AuthNew ==
    /\ secret = StoredRecord
    /\ config = NoConfig
    /\ headers = <<>>
    /\ saves = 0
    /\ xchg = NoExchange

\* RedditApi() constructed without an exchange being looked at
AuthReady ==
    /\ secret = StoredRecord
    /\ config = StoredRecord
    /\ headers = <<"bearer", Str(StoredRecord.access_token)>>
    /\ saves = 0
    /\ xchg = NoExchange

\* RateLimitDecorator.__init__, run when the class body is executed
LimiterNew ==
    /\ clock = 0
    /\ last_reset = 0
    /\ num_calls = 0
    /\ remaining = 0
    /\ admitted = <<>>
    /\ fetched = 0
    /\ waited = 0

\* no save_table call made yet, no staging table, the destination as given
LoaderIdle(dest) ==
    /\ table = [complete |-> TRUE, rows |-> EmptyRows]
    /\ staging = NoTable
    /\ destination = dest
    /\ dest0 = dest
    /\ steps = <<>>
    /\ saveNo = 0
    /\ outcomes = <<>>

Init ==
    /\ pc = "main"
    /\ Running
    /\ AuthNew
    /\ LimiterNew
    /\ \E dest \in InitialDestinations : LoaderIdle(dest)

Next ==
    \/ CreateDatabase
    \/ ApiInit
    \/ GetResult
    \/ Attempt
    \/ Sleep
    \/ Request
    \/ Transform
    \/ SaveNewTable
    \/ EnsureTable
    \/ MergeTables
    \/ DeleteTable
    \/ SaveReturned
    \/ Except

\* one run of the command; its calls return within one clock tick, so the
\* clock moves only by the limiter's sleeps (SpecClient lets time pass)
Spec == Init /\ [][Next]_vars

----------------------------------------------------------------------------
(* The Token Manager driven through its public methods *)

\* token exchanges persisted in one behaviour
MaxExchanges == 2

\* RedditAuth.refresh_token called again on the constructed object: the
\* record is read anew, exchanged and saved; self.config is not reassigned
AuthRefresh ==
    /\ pc = "ready"
    /\ saves < MaxExchanges
    /\ \E res \in Responses :
        LET cfg == secret
            data == RefreshGrant(cfg.refresh_token)
            r == make_request(cfg, data, res)
        IN  /\ secret' = IF r.saved THEN r.config ELSE secret
            /\ saves' = IF r.saved THEN saves + 1 ELSE saves
            /\ xchg' = [happened |-> TRUE, data |-> data, res |-> res,
                        before |-> cfg, stored |-> secret,
                        savesBefore |-> saves, raised |-> r.raised]
            /\ exc' = r.raised
    /\ UNCHANGED <<pc, logged, exitCode, headers, config, limiterVars,
                   loaderVars>>

\* RedditAuth.get_token(code): make_request(data) lacks the config argument,
\* so the call raises TypeError before any request is made
AuthGetToken ==
    /\ pc = "ready"
    /\ exc' = "TypeError"
    /\ UNCHANGED <<pc, logged, exitCode, headers, authVars, limiterVars,
                   loaderVars>>

\* RedditAuth.make_request(self.config, data) with either grant payload
AuthMakeRequest ==
    /\ pc = "ready"
    /\ saves < MaxExchanges
    /\ \E res \in Responses,
          data \in {AuthCodeGrant, RefreshGrant(config.refresh_token)} :
        Exchange(config, data, res)
    /\ UNCHANGED <<pc, logged, exitCode, headers, limiterVars, loaderVars>>

NextAuth ==
    \/ CreateDatabase
    \/ ApiInit
    \/ AuthRefresh
    \/ AuthGetToken
    \/ AuthMakeRequest

InitAuth ==
    /\ pc = "main"
    /\ Running
    /\ AuthNew
    /\ LimiterNew
    /\ LoaderIdle(NoTable)

SpecAuth == InitAuth /\ [][NextAuth]_vars

----------------------------------------------------------------------------
(* The API client's fetches under a running clock *)

InitClient ==
    /\ pc = "ready"
    /\ Running
    /\ AuthReady
    /\ LimiterNew
    /\ LoaderIdle(NoTable)

NextClient ==
    \/ GetResult
    \/ Tick
    \/ Attempt
    \/ Sleep
    \/ Request

SpecClient == InitClient /\ [][NextClient]_vars

\* the call loop is one thread that keeps running; time may stand still
FairClient ==
    SpecClient /\ WF_vars(GetResult \/ Attempt \/ Sleep \/ Request)

----------------------------------------------------------------------------
(* The Warehouse Loader saving one result set several times *)

\* the next run's save_table(rows) with the same rows
SaveAgain ==
    /\ pc \in {"save_returned", "save_raised"}
    /\ saveNo < 2
    /\ pc' = "save"
    /\ saveNo' = saveNo + 1
    /\ exc' = "none"
    /\ steps' = <<>>
    /\ UNCHANGED <<logged, exitCode, headers, authVars, limiterVars,
                   table, staging, destination, dest0, outcomes>>

InitLoader ==
    /\ pc = "save"
    /\ Running
    /\ AuthReady
    /\ LimiterNew
    /\ table \in Frames
    /\ staging = NoTable
    /\ destination \in {NoTable} \cup {Table(b) : b \in RowSets(MaxDestRows)}
    /\ dest0 = destination
    /\ steps = <<>>
    /\ saveNo = 1
    /\ outcomes = <<>>

NextLoader ==
    \/ SaveNewTable
    \/ EnsureTable
    \/ MergeTables
    \/ DeleteTable
    \/ SaveAgain

SpecLoader == InitLoader /\ [][NextLoader]_vars

----------------------------------------------------------------------------
(* Claims about the token exchange *)

Non2xx(status) == ~(200 <= status /\ status < 300)

\* the last exchange succeeded
Exchanged == xchg.happened /\ xchg.raised = "none"

\* C4: after every successful token exchange, of either grant kind, whose
\* response omits refresh_token or carries null, the persisted Credential
\* Record holds the refresh_token the record held before the exchange.
C4_RefreshTokenRetained ==
    (Exchanged /\ Get(xchg.res.body, "refresh_token") = None)
        => secret.refresh_token = xchg.before.refresh_token

\* C5: a token-exchange response that is non-2xx, or 2xx with an error
\* field, makes the exchange fail with HTTPError without save_token being
\* called, so the stored Credential Record is unchanged.
C5_FailedExchangeNotPersisted ==
    (xchg.happened
        /\ (Non2xx(xchg.res.status) \/ xchg.res.body.error # Absent))
        => /\ xchg.raised = "HTTPError"
           /\ saves = xchg.savesBefore
           /\ secret = xchg.stored

\* C5 case: a 200 response carrying an error field was refused
C5_Witness ==
    /\ xchg.happened
    /\ xchg.res.status = 200
    /\ xchg.res.body.error # Absent
    /\ xchg.res.body.access_token = NewAccess
    /\ xchg.raised = "HTTPError"
    /\ pc = "ready"

\* C10: after a successful exchange whose response has no access_token, the
\* record persisted and returned keeps the access_token held before, and
\* the API client's bearer header carries it.
C10_AccessTokenRetained ==
    (Exchanged /\ Get(xchg.res.body, "access_token") = None /\ pc = "ready")
        => /\ secret.access_token = xchg.before.access_token
           /\ config.access_token = xchg.before.access_token
           /\ headers = <<"bearer", xchg.before.access_token>>

----------------------------------------------------------------------------
(* Claims about the command *)

\* the startup token exchange failed
TokenExchangeFailed == xchg.happened /\ xchg.raised = "HTTPError"

\* C7 as stated: whenever an outbound HTTP call of a run fails with an HTTP
\* error, be it the token exchange or a data fetch, the command logs the
\* exception and terminates normally.
C7_EveryHttpErrorLogged ==
    (pc = "exit" /\ exc = "HTTPError") => (logged /\ exitCode = 0)

\* C7 amended: an HTTP error of a data fetch is logged and the command
\* terminates normally; an HTTP error of the startup token exchange is not
\* logged by the command and leaves main.
C7_FetchErrorLogged ==
    (pc = "exit" /\ exc = "HTTPError")
        => IF TokenExchangeFailed
           THEN ~logged /\ exitCode = 1
           ELSE logged /\ exitCode = 0

\* C7 case: the third data fetch failed with an HTTP error and was logged
C7_Witness ==
    /\ pc = "exit"
    /\ exc = "HTTPError"
    /\ ~TokenExchangeFailed
    /\ fetched = 2
    /\ logged
    /\ exitCode = 0

----------------------------------------------------------------------------
(* Claims about the Warehouse Loader *)

\* the Merge Key of a row
KeyOf(r) == [c \in KeyCols |-> r[c]]

\* number of rows of a table body that carry Merge Key k
RowsWithKey(rows, k) == SumOver({x \in DOMAIN rows : KeyOf(x) = k}, rows)

\* the destination holds exactly one row per Merge Key of the input, and
\* that row is the input's
OnePerKey(dst, src) ==
    \A r \in DOMAIN src :
        RowsWithKey(dst, KeyOf(r)) = 1 /\ Count(dst, r) = 1

\* no row carries NULL in a Merge Key column
NoNullKeys(rows) == \A r \in DOMAIN rows : \A c \in KeyCols : r[c] # NULL

\* the rows' Merge Keys are pairwise distinct
DistinctKeys(rows) == \A r \in DOMAIN rows : RowsWithKey(rows, KeyOf(r)) = 1

\* save_table was run twice on the same rows and returned both times
SavedTwice ==
    /\ pc = "save_returned"
    /\ saveNo = 2
    /\ outcomes = <<"returned", "returned">>

\* C1 as stated: for every result set and any initial destination, two
\* consecutive saves of the same rows leave exactly one destination row per
\* Merge Key of the rows, carrying the input's values.
C1_MergeIdempotentAlways ==
    SavedTwice => OnePerKey(destination.rows, table.rows)

\* C1 amended: the same, for rows whose Merge Keys are pairwise distinct and
\* hold no NULL and a destination that started with at most one row for each
\* of these keys.
C1_MergeIdempotent ==
    (/\ SavedTwice
     /\ NoNullKeys(table.rows)
     /\ DistinctKeys(table.rows)
     /\ \A r \in DOMAIN table.rows : RowsWithKey(dest0.rows, KeyOf(r)) <= 1)
        => OnePerKey(destination.rows, table.rows)

\* C1 case: two rows saved twice, one of them updating a destination row
\* that held another value, the other one inserted
C1_Witness ==
    /\ SavedTwice
    /\ NoNullKeys(table.rows)
    /\ DistinctKeys(table.rows)
    /\ Size(table.rows) = 2
    /\ Size(dest0.rows) = 1
    /\ \E r \in DOMAIN table.rows, o \in DOMAIN dest0.rows :
          KeyOf(o) = KeyOf(r) /\ o.spend # r.spend
    /\ OnePerKey(destination.rows, table.rows)
    /\ Size(destination.rows) = 2

\* save_table has returned or raised
SaveLeft == pc \in {"save_returned", "save_raised"}

\* C2: once save has returned or raised, whether stage and merge succeeded
\* or failed, the staging table does not exist.
C2_StagingNeverPersists == SaveLeft => ~staging.exists

\* C2 case: both outcomes seen in one behaviour, a save that raised from
\* stage and a save that went through, and no staging table left
C2_Witness ==
    /\ SaveLeft
    /\ outcomes = <<"stage_raised", "returned">>
    /\ ~staging.exists

\* C3: whenever merge raises inside save, the staging table is deleted
\* before the exception leaves save, and the exception that leaves save is
\* the ValueError merge raised.
C3_CleanupBeforePropagation ==
    /\ (pc = "cleanup" /\ exc # "none") => (exc = "ValueError" /\ staging.exists)
    /\ (pc = "save_raised" /\ Len(steps) >= 3)
          => /\ steps = <<"STAGE", "CREATE_DESTINATION_IF_ABSENT", "MERGE",
                         "CLEANUP">>
             /\ ~staging.exists
             /\ exc = "ValueError"

\* C3 case: merge raised, cleanup ran, save raised
C3_Witness ==
    /\ pc = "save_raised"
    /\ outcomes = <<"merge_raised">>
    /\ steps[4] = "CLEANUP"
    /\ exc = "ValueError"
    /\ ~staging.exists

IsPrefix(s, t) == Len(s) <= Len(t) /\ \A i \in 1..Len(s) : s[i] = t[i]

\* C9 as stated: the loader's steps run in the order
\* CREATE_DESTINATION_IF_ABSENT, STAGE, MERGE, CLEANUP.
C9_CreateBeforeStage ==
    IsPrefix(steps, <<"CREATE_DESTINATION_IF_ABSENT", "STAGE", "MERGE",
                      "CLEANUP">>)

\* C9 amended: the loader's steps run in the order STAGE,
\* CREATE_DESTINATION_IF_ABSENT, MERGE, CLEANUP: the staging table is loaded
\* first, the destination is ensured to exist before the merge statement is
\* issued, and the staging table is deleted only after the merge attempt.
C9_StageBeforeCreate ==
    /\ IsPrefix(steps, <<"STAGE", "CREATE_DESTINATION_IF_ABSENT", "MERGE",
                         "CLEANUP">>)
    /\ pc = "merge" => (destination.exists /\ staging.exists)
    /\ pc = "cleanup" => staging.exists

\* C9 case: a save that went through all four steps on a destination that
\* did not exist
C9_Witness ==
    /\ steps = <<"STAGE", "CREATE_DESTINATION_IF_ABSENT", "MERGE", "CLEANUP">>
    /\ ~dest0.exists
    /\ destination.exists
    /\ saveNo = 1

----------------------------------------------------------------------------
(* Claims about the rate limiter *)

\* admitted requests i and i+1 are at least one period apart
Spaced(i) == admitted[i + 1] - admitted[i] >= PeriodTicks

\* C6 as stated: any two admitted data requests are at least 1 second apart.
C6_AlwaysSpaced == \A i \in 1..(Len(admitted) - 1) : Spaced(i)

\* C6 amended, safety: at most one request is admitted per limiter window,
\* so every admitted request from the second on is followed by the next one
\* no sooner than 1 second later, and N requests take at least N-2 seconds;
\* no rate-limit error reaches the caller.
C6_SpacedAfterSecond ==
    /\ \A i \in 2..(Len(admitted) - 1) : Spaced(i)
    /\ Len(admitted) >= 2
          => admitted[Len(admitted)] - admitted[1]
                 >= (Len(admitted) - 2) * PeriodTicks
    /\ pc = "request" => (num_calls <= calls /\ last_reset <= clock)
    /\ exc # "RateLimitException"

\* C6 amended: the safety part, and a call that enters the limiter, blocked
\* or not, is eventually issued.
C6_SelfThrottling ==
    /\ []C6_SpacedAfterSecond
    /\ (pc \in {"attempt", "sleep"}) ~> (pc = "request")

\* C6 case: four requests admitted, the second one half a second after the
\* first, the third one blocked until a full second after the second
C6_Witness ==
    /\ Len(admitted) = Collections
    /\ admitted[2] - admitted[1] < PeriodTicks
    /\ admitted[3] - admitted[2] = PeriodTicks
    /\ pc = "request"

====
